---- MODULE Spec2Model ----
(***************************************************************************)
(* rx-data-source: Interval (periodic trigger), DataSource (managed data   *)
(* source) and TableDataSource (paginated table) as a state machine.       *)
(*                                                                         *)
(* Every public method, timer tick and source callback is one atomic       *)
(* action: JavaScript runs each of them to completion on one thread, and   *)
(* the RxState slices a handler queues are applied in FIFO order before    *)
(* the handler returns.  Sources are asynchronous: a value, an error or a  *)
(* completion of a source is a step of its own.                            *)
(***************************************************************************)
EXTENDS Integers, Sequences, FiniteSets, TLC

(***************************************************************************)
(* Bounds of the model.                                                    *)
(***************************************************************************)
\* Largest page the model lets nextPage()/scroll()/jumpToPage() reach.
MaxPage == 3
\* Longest rows array the model lets the scroll accumulation grow to.
MaxRows == 3

\* Identities of the source observables / source functions a consumer sets.
Sources == {"A", "B"}
\* Row elements; a batch is an array of them.
Elems == {1, 2}
Batches == {<<e>> : e \in Elems}
\* Two array objects may hold equal contents: ref tells the objects apart.
Refs == {0, 1}
\* Failure values a source can throw.
Errors == {"e1", "e2"}

(***************************************************************************)
(* Values of the state fields.  JavaScript's undefined and null are kept   *)
(* apart: RxState.select() filters undefined and lets null through.        *)
(***************************************************************************)
UndefinedV == [kind |-> "undefined", ref |-> 0, val |-> <<>>]
NullV == [kind |-> "null", ref |-> 0, val |-> <<>>]
Values == [kind : {"value"}, ref : Refs, val : Batches]
NoError == "null"

\* HttpParams: each key is absent (<<>>) or holds one value.
EmptyQuery == [skip |-> <<>>, take |-> <<>>, sortBy |-> <<>>, sortDirection |-> <<>>]
\* DataSourceState.dataSource before any source is set.
NoSource == [src |-> "none", query |-> EmptyQuery, ref |-> 0]
\* No inner subscription to a source is open.
NoFetch == [src |-> "none", query |-> EmptyQuery]

\* The observables a consumer of a standalone DataSource assigns to `source`.
Observables == [src : Sources, query : {EmptyQuery}, ref : {0}]

\* Interval.refreshInterval in tenths of a second (0.1 s = 1): no interval,
\* the threshold itself, 0.2 s and 0.4 s.
Intervals == {0, 1, 2, 4}
\* A configuration without refreshInterval: the state slice stays undefined.
UndefinedInterval == 0 - 1

VARIABLES
  refreshInterval, \* IntervalState.refreshInterval (tenths of a second)
  dataSource,      \* DataSourceState.dataSource
  data,            \* DataSourceState.data
  error,           \* DataSourceState.error
  initialState,    \* DataSourceState.initialState
  loading,         \* DataSourceState.loading
  fetch,           \* the open inner subscription (source invocation in flight)
  stale,           \* superseded invocations whose producer may still deliver
  pipeline,        \* state.connect('data', ...): "idle" until the first pulse
                   \* subscribes dataSource$, then "subscribed"; "dead" once
                   \* an error has terminated it
  firstLoading,    \* last value of firstLoading$
  afterFirstLoading, \* last value of afterFirstLoading$
  subscribers,     \* subscribers of execute$ (the reference count of share)
  timers,          \* running interval() timers
  elapsed,         \* tenths of a second since the running timer last
                   \* started or fired
  everPulsed,      \* execute$ has emitted since construction
  hasTable,        \* a TableDataSource is built on this DataSource
  sourceFn,        \* latest setDataSource action value
  limit,           \* PaginationState.limit
  page,            \* PaginationState.page
  paginationStrategy, \* PaginationState.paginationStrategy
  sort,            \* PaginationState.sort
  currentPage,     \* accumulator of the scan operator feeding page
  params,          \* last value paginationParams$ emitted
  rows,            \* TableDataSourceState.rows (when rowsSet)
  rowsSet,         \* rows is not undefined
  empty            \* last value of empty$: <<>> before its first emission

dsVars == <<refreshInterval, dataSource, data, error, initialState, loading,
            fetch, stale, pipeline, firstLoading, afterFirstLoading,
            subscribers, timers, elapsed, everPulsed>>
tableVars == <<hasTable, sourceFn, limit, page, paginationStrategy, sort,
               currentPage, params, rows, rowsSet, empty>>
vars == <<dsVars, tableVars>>

\* The whole state as one record, so that handlers compose sequentially.
\* More fields observe what one handler does: the values data$ emits, the
\* source subscriptions it makes, the execute$ pulses in it, the refresh
\* actions in it, the emissions of loading$, the most timers that ran at
\* once, the values paginationParams$ emits and the (error, initialState)
\* pairs of the states it passes through.
Cur ==
  [refreshInterval |-> refreshInterval, dataSource |-> dataSource, data |-> data,
   error |-> error, initialState |-> initialState, loading |-> loading,
   fetch |-> fetch, stale |-> stale, pipeline |-> pipeline,
   firstLoading |-> firstLoading, afterFirstLoading |-> afterFirstLoading,
   subscribers |-> subscribers, timers |-> timers, elapsed |-> elapsed,
   everPulsed |-> everPulsed,
   emitted |-> <<>>, started |-> 0, pulses |-> 0, refreshes |-> 0,
   loadingEmits |-> 0, peak |-> timers, derived |-> <<>>, slices |-> <<>>,
   hasTable |-> hasTable, sourceFn |-> sourceFn, limit |-> limit, page |-> page,
   paginationStrategy |-> paginationStrategy, sort |-> sort,
   currentPage |-> currentPage, params |-> params, rows |-> rows,
   rowsSet |-> rowsSet, empty |-> empty]

\* The state after a handler that ends in s.
Becomes(s) ==
  /\ refreshInterval' = s.refreshInterval
  /\ dataSource' = s.dataSource
  /\ data' = s.data
  /\ error' = s.error
  /\ initialState' = s.initialState
  /\ loading' = s.loading
  /\ fetch' = s.fetch
  /\ stale' = s.stale
  /\ pipeline' = s.pipeline
  /\ firstLoading' = s.firstLoading
  /\ afterFirstLoading' = s.afterFirstLoading
  /\ subscribers' = s.subscribers
  /\ timers' = s.timers
  /\ elapsed' = s.elapsed
  /\ everPulsed' = s.everPulsed
  /\ hasTable' = s.hasTable
  /\ sourceFn' = s.sourceFn
  /\ limit' = s.limit
  /\ page' = s.page
  /\ paginationStrategy' = s.paginationStrategy
  /\ sort' = s.sort
  /\ currentPage' = s.currentPage
  /\ params' = s.params
  /\ rows' = s.rows
  /\ rowsSet' = s.rowsSet
  /\ empty' = s.empty

(***************************************************************************)
(* TableDataSource: rows follow DataSource.data$.                          *)
(***************************************************************************)
\* rows$ emits a new array: empty$ maps it to rows.length === 0.
SetRows(s, newRows) ==
  [s EXCEPT !.rows = newRows, !.rowsSet = TRUE, !.empty = <<Len(newRows) = 0>>]

\* A rows connection that replaces rows under every strategy.
RowsConnect_Replaces(s, v) ==
  SetRows(s, IF v.kind = "value" THEN v.val ELSE <<>>)

\* state.connect(data$.pipe(withLatestFrom(scrollStrategy$)), ...): append
\* under scroll (a null batch keeps rows), replace otherwise.
RowsConnect(s, v) ==
  LET scrollStrategy == s.paginationStrategy = "scroll" IN
  IF scrollStrategy
    THEN IF v.kind = "value"
           THEN IF s.rowsSet
                  THEN SetRows(s, s.rows \o v.val)
                  ELSE SetRows(s, v.val)
           ELSE s
    ELSE SetRows(s, IF v.kind = "value" THEN v.val ELSE <<>>)

\* A clearRows that empties the array in place: rows$ does not emit.
ClearRows_InPlace(s) ==
  [s EXCEPT !.rows = IF s.rowsSet /\ Len(s.rows) > 0 THEN <<>> ELSE @]

\* clearRows action: an empty array only if rows holds something.
ClearRows(s) ==
  IF s.rowsSet /\ Len(s.rows) > 0 THEN SetRows(s, <<>>) ELSE s

(***************************************************************************)
(* Interval: the timer behind execute$.                                    *)
(***************************************************************************)
\* A timer also for a refresh interval of exactly 0.1 s.
TimerRuns_AtThreshold(s) == s.refreshInterval >= 1

\* interval$ runs a timer only for a refresh interval above 0.1 s.
TimerRuns(s) == s.refreshInterval > 1

\* A switch that starts the new timer at the phase of the previous one.
SwitchTimer_KeepsPhase(s) ==
  IF s.subscribers = 0
    THEN s
    ELSE [s EXCEPT !.timers = IF TimerRuns(s) THEN 1 ELSE 0,
                   !.elapsed = IF TimerRuns(s) /\ @ < s.refreshInterval
                                 THEN @ ELSE 0]

\* combineLatest([refreshInterval, refresh$]) emits into switchMap: the
\* running timer is cancelled, then interval(refreshInterval * 1000) is
\* started from zero, or EMPTY for an interval of at most 0.1 s.
SwitchTimer(s) ==
  LET stopped == [s EXCEPT !.timers = 0, !.elapsed = 0] IN
  IF s.subscribers = 0
    THEN s
    ELSE IF TimerRuns(stopped)
           THEN [stopped EXCEPT !.timers = 1,
                                !.peak = IF @ < 1 THEN 1 ELSE @]
           ELSE stopped

\* A subscription to execute$ that subscribes merge(refresh$, interval$)
\* for itself.
ShareSubscribe_Unshared(s) ==
  LET n == s.timers + IF TimerRuns(s) THEN 1 ELSE 0 IN
  [s EXCEPT !.subscribers = @ + 1,
            !.timers = n,
            !.peak = IF @ < n THEN n ELSE @]

\* A subscription to execute$: share() subscribes merge(refresh$, interval$)
\* for the first subscriber only.
ShareSubscribe(s) ==
  LET t == [s EXCEPT !.subscribers = @ + 1] IN
  IF s.subscribers = 0 THEN SwitchTimer(t) ELSE t

\* An unsubscription from execute$: share() lets go of its source with the
\* last subscriber.
ShareUnsubscribe(s) ==
  LET t == [s EXCEPT !.subscribers = @ - 1] IN
  IF t.subscribers = 0 THEN [t EXCEPT !.timers = 0, !.elapsed = 0] ELSE t

(***************************************************************************)
(* DataSource.                                                             *)
(***************************************************************************)
\* state.set('loading', ...): loading$ emits a changed value, and
\* firstLoading$ / afterFirstLoading$ map it withLatestFrom(initialState$).
SetLoading(s, b) ==
  IF s.loading = b
    THEN s
    ELSE [s EXCEPT !.loading = b,
                   !.loadingEmits = @ + 1,
                   !.firstLoading = b /\ s.initialState,
                   !.afterFirstLoading = b /\ ~s.initialState]

\* A comparison by contents instead of by identity.
SameValue_ByContents(a, b) == a.kind = b.kind /\ a.val = b.val

\* distinctUntilChanged() of RxState.select('data'): strict equality (===),
\* so two arrays are the same only if they are the same object.
SameValue(a, b) == a = b

\* A new data slice: the state takes it, data$ emits it unless it is the
\* value data$ emitted last, and the table's rows connection consumes it.
SetData(s, v) ==
  LET t == [s EXCEPT !.data = v] IN
  IF SameValue(s.data, v)
    THEN t
    ELSE LET u == [t EXCEPT !.emitted = Append(@, v)] IN
         IF u.hasTable THEN RowsConnect(u, v) ELSE u

\* An unsubscription that leaves the subscriber open to its producer.
Unsubscribe_KeepsSubscriber(s) ==
  IF s.fetch = NoFetch
    THEN s
    ELSE SetLoading(
           ShareUnsubscribe(
             [s EXCEPT !.fetch = NoFetch,
                       !.stale = @ \cup {[src |-> s.fetch.src, closed |-> FALSE]}]),
           FALSE)

\* Unsubscription of the inner subscription (switchMap switching away, or
\* takeUntil): the subscriber is closed, finalize() sets loading to false.
\* The producer may go on; what it delivers reaches a closed subscriber.
Unsubscribe(s) ==
  IF s.fetch = NoFetch
    THEN s
    ELSE SetLoading(
           ShareUnsubscribe(
             [s EXCEPT !.fetch = NoFetch,
                       !.stale = @ \cup {[src |-> s.fetch.src, closed |-> TRUE]}]),
           FALSE)

\* Subscription to dataSource.pipe(indicate(state), takeUntil(execute$), ...):
\* prepare() sets loading to true, then the source is subscribed.
Subscribe(s) ==
  IF s.dataSource = NoSource
    THEN s
    ELSE LET t == ShareSubscribe(SetLoading(s, TRUE)) IN
         [t EXCEPT !.fetch = [src |-> s.dataSource.src, query |-> s.dataSource.query],
                   !.started = @ + 1]

\* A switch that subscribes the new inner observable before the finalize()
\* of the previous one runs.
SwitchMap_FinalizeLast(s) ==
  IF s.fetch = NoFetch
    THEN Subscribe(s)
    ELSE [Subscribe(Unsubscribe(s)) EXCEPT !.loading = FALSE]

\* switchMap: the previous inner subscription is torn down, then the new
\* one is made.
SwitchMap(s) == Subscribe(Unsubscribe(s))

\* An execute$ pulse reaches state.connect('data', execute$.pipe(
\* startWith(undefined), switchMap(() => dataSource$))).
Execute(s) ==
  LET t == [s EXCEPT !.pulses = @ + 1] IN
  IF t.pipeline = "dead"
    THEN t
    ELSE SwitchMap([t EXCEPT !.pipeline = "subscribed"])

\* A pipeline without the synthetic pulse.
StartWith_None(s) == s

\* startWith(undefined): the synthetic pulse at construction.
StartWith(s) == Execute(s)

\* A replacement that only stores the new source.
SourceChanged_StoresOnly(s, obs) == [s EXCEPT !.dataSource = obs]

\* A replacement that stores the new source and emits an execute$ pulse.
SourceChanged_Pulses(s, obs) ==
  IF obs = s.dataSource THEN s ELSE Execute([s EXCEPT !.dataSource = obs])

\* state.select('dataSource') emits a new observable (distinct by reference)
\* into the inner switchMap of dataSource$.
SourceChanged(s, obs) ==
  IF obs = s.dataSource
    THEN s
    ELSE LET t == [s EXCEPT !.dataSource = obs] IN
         IF t.pipeline = "subscribed" THEN SwitchMap(t) ELSE t

\* A value after which the loading flags are derived anew from the state
\* (combineLatest in place of withLatestFrom).
OnValue_Recomputes(s, v) ==
  LET t == SetData([s EXCEPT !.error = NoError, !.initialState = FALSE], v) IN
  [t EXCEPT !.firstLoading = t.loading /\ t.initialState,
            !.afterFirstLoading = t.loading /\ ~t.initialState]

\* state.set({ error, initialState }): one state transition; slices keeps
\* the pair of each state the observers see.
SetOutcome(s, e, i) ==
  [s EXCEPT !.error = e, !.initialState = i, !.slices = Append(@, <<e, i>>)]

\* A value that sets error and initialState one after the other, the
\* latter only if it is true.
OnValue_TwoSets(s, v) ==
  LET t == SetOutcome(s, NoError, s.initialState)
      u == IF t.initialState THEN SetOutcome(t, t.error, FALSE) ELSE t
  IN SetData(u, v)

\* map(): a value of the source clears error and initialState in one
\* slice; the value then becomes the data slice.
OnValue(s, v) == SetData(SetOutcome(s, NoError, FALSE), v)

\* The source completes, or its error was replaced by EMPTY: finalize().
OnComplete(s) ==
  SetLoading(ShareUnsubscribe([s EXCEPT !.fetch = NoFetch]), FALSE)

\* A failure that is recorded and then ends the outer pipeline.
OnError_Propagates(s, e) ==
  SetLoading(
    ShareUnsubscribe([s EXCEPT !.error = e, !.initialState = FALSE,
                               !.fetch = NoFetch, !.pipeline = "dead"]),
    FALSE)

\* A failure that also clears the data.
OnError_ClearsData(s, e) ==
  OnComplete(SetData([s EXCEPT !.error = e, !.initialState = FALSE], NullV))

\* catchError(): the failure becomes state and the inner observable ends
\* with EMPTY; the outer pipeline stays subscribed.
OnError(s, e) == OnComplete(SetOutcome(s, e, FALSE))

\* A notification of a producer reaches its subscriber only while the
\* subscriber is not closed.
Deliver(s, closed, kind, v, e) ==
  IF closed THEN s
  ELSE IF kind = "next" THEN OnValue(s, v)
  ELSE IF kind = "error" THEN OnError(s, e)
  ELSE OnComplete(s)

\* A clearData that resets initialState as well.
ClearData_Resets(s) == SetData([s EXCEPT !.initialState = TRUE], NullV)

\* clearData$ hold.
ClearData(s) == SetData(s, NullV)

\* A reset that also sets error to null.
Reset_ClearsError(s) ==
  SetData([s EXCEPT !.initialState = TRUE, !.error = NoError], NullV)

\* A reset that also cancels the fetch in flight.
Reset_Cancels(s) ==
  Unsubscribe(SetData([s EXCEPT !.initialState = TRUE], NullV))

\* reset$ hold: resetDataSourceState.
Reset(s) == SetData([s EXCEPT !.initialState = TRUE], NullV)

\* Interval.refresh(): the refresh action is merged into execute$ and
\* restarts the timer of interval$.
IntervalRefresh(s) ==
  SwitchTimer(Execute([s EXCEPT !.refreshes = @ + 1, !.everPulsed = TRUE]))

\* Interval.refreshInterval setter: select('refreshInterval') emits a
\* changed value only.
SetRefreshInterval(s, i) ==
  IF i = s.refreshInterval
    THEN s
    ELSE SwitchTimer([s EXCEPT !.refreshInterval = i])

\* A timer that fires when it is started and then after every period.
TickDue_AtStart(s) ==
  s.timers > 0 /\ (s.elapsed = 0 \/ s.elapsed + 1 = s.refreshInterval)

\* The running timer has reached its period.
TickDue(s) == s.timers > 0 /\ s.elapsed + 1 = s.refreshInterval

\* interval() fires: a pulse on execute$; the timer goes on periodically.
Tick(s) == Execute([s EXCEPT !.elapsed = 0, !.everPulsed = TRUE])

\* The refresh first and the reset after it.
ResetAndRefresh_RefreshFirst(s) == Reset(IntervalRefresh(s))

\* resetAndRefresh$ hold.
ResetAndRefresh(s) == IntervalRefresh(Reset(s))

(***************************************************************************)
(* TableDataSource: pagination state, parameters and source.               *)
(***************************************************************************)
Strategies == {"none", "paginate", "scroll"}
\* PaginationState.limit: a boolean or a number.
LimitFalse == [kind |-> "boolean", n |-> 0]
LimitTrue == [kind |-> "boolean", n |-> 1]
NumberLimit(n) == [kind |-> "number", n |-> n]
Limits == {LimitFalse, LimitTrue, NumberLimit(2)}
\* PaginationState.sort: undefined (no configured sort), null or a Sort.
SortUndefined == <<"undefined">>
SortNull == <<"null">>
Sorts == {<<"c1", "asc">>}
\* Pages a configuration or jumpToPage() may name, valid or not.
PageInputs == -1 .. MaxPage
NoSourceFn == "none"
\* Source functions a consumer of the table sets.
SourceFns == {"A"}

isNumber(input) == input.kind = "number"

fallbackLimit == 10

\* Parameters with the fallback limit under paginate and scroll only.
PaginationParams_Gated(s) ==
  LET take == IF /\ ~isNumber(s.limit)
                 /\ s.paginationStrategy \in {"paginate", "scroll"}
                THEN NumberLimit(fallbackLimit)
                ELSE s.limit
  IN [pagination |-> IF isNumber(take)
                       THEN <<(s.page - 1) * take.n, take.n>>
                       ELSE <<>>,
      sort |-> s.sort]

\* paginationState$ -> paginationParams$ (the map() of the pipe).
PaginationParams(s) ==
  LET take == IF \/ s.limit = LimitTrue
                 \/ /\ ~isNumber(s.limit)
                    /\ s.paginationStrategy \in {"paginate", "scroll"}
                THEN NumberLimit(fallbackLimit)
                ELSE s.limit
  IN [pagination |-> IF isNumber(take)
                       THEN <<(s.page - 1) * take.n, take.n>>
                       ELSE <<>>,
      sort |-> s.sort]

\* sort?.column and sort?.direction: undefined for a null or undefined sort.
SortKey(x) == IF x \in {SortNull, SortUndefined} THEN <<>> ELSE x

\* The comparator of the revision whose parameters hold skip and take only.
SameParams_PaginationOnly(a, b) == a.pagination = b.pagination

\* The comparator of paginationParams$'s distinctUntilChanged.
SameParams(a, b) ==
  /\ a.pagination = b.pagination
  /\ SortKey(a.sort) = SortKey(b.sort)

\* HttpParams that leave out a skip of 0.
ToHttpParams_TruthySkip(p) ==
  [skip |-> IF p.pagination # <<>> /\ p.pagination[1] # 0
              THEN <<p.pagination[1]>> ELSE <<>>,
   take |-> IF p.pagination # <<>> THEN <<p.pagination[2]>> ELSE <<>>,
   sortBy |-> IF SortKey(p.sort) # <<>> THEN <<p.sort[1]>> ELSE <<>>,
   sortDirection |-> IF SortKey(p.sort) # <<>> THEN <<p.sort[2]>> ELSE <<>>]

\* The HttpParams dataSource$ builds for the source function.
ToHttpParams(p) ==
  [skip |-> IF p.pagination # <<>> THEN <<p.pagination[1]>> ELSE <<>>,
   take |-> IF p.pagination # <<>> THEN <<p.pagination[2]>> ELSE <<>>,
   sortBy |-> IF SortKey(p.sort) # <<>> THEN <<p.sort[1]>> ELSE <<>>,
   sortDirection |-> IF SortKey(p.sort) # <<>> THEN <<p.sort[2]>> ELSE <<>>]

\* combineLatest([setDataSource$, paginationParams$]) emits once both have
\* a value: the source function is called and its (new) observable goes to
\* DataSource.connectSource.
EmitDataSource(s) ==
  IF s.sourceFn = NoSourceFn
    THEN s
    ELSE SourceChanged(s, [src |-> s.sourceFn,
                           query |-> ToHttpParams(s.params),
                           ref |-> 1 - s.dataSource.ref])

\* paginationState emitted: paginationParams$ emits only changed parameters.
PaginationChanged(s) ==
  LET p == PaginationParams(s) IN
  IF SameParams(s.params, p)
    THEN s
    ELSE EmitDataSource([s EXCEPT !.params = p, !.derived = Append(@, p)])

\* A scan seeded with the requested page as it is.
Seed_Unclamped(jumpToPage) == jumpToPage

\* Seed of the scan operator: "Jump to page must be at least 1".
Seed(jumpToPage) == IF jumpToPage >= 1 THEN jumpToPage ELSE 1

\* jumpToPage action: switchMap restarts the scan with a new seed.
JumpToPageAction(s, n) ==
  PaginationChanged([s EXCEPT !.currentPage = Seed(n), !.page = Seed(n)])

\* The accumulator function of scan.
Accumulate(current, change) ==
  LET newPage == current + change IN
  IF newPage <= 0 THEN current ELSE newPage

\* A +1 / -1 change reaches scan; its result becomes the page slice.
PageChange(s, change) ==
  LET p == Accumulate(s.currentPage, change) IN
  PaginationChanged([s EXCEPT !.currentPage = p, !.page = p])

\* nextPage$ without the filter on the strategy.
NextPage_Ungated(s) == PageChange(s, 1)

\* nextPage$, previousPage$, scroll$: filtered by the current strategy.
NextPage(s) == IF s.paginationStrategy = "paginate" THEN PageChange(s, 1) ELSE s
PreviousPage(s) == IF s.paginationStrategy = "paginate" THEN PageChange(s, -1) ELSE s
Scroll(s) == IF s.paginationStrategy = "scroll" THEN PageChange(s, 1) ELSE s

\* TableDataSource.jumpToPage(): only under paginate.
JumpToPage(s, n) ==
  IF s.paginationStrategy = "paginate" THEN JumpToPageAction(s, n) ELSE s

\* limit setter.
SetLimit(s, l) == PaginationChanged([s EXCEPT !.limit = l])

\* source setter: setDataSource action.
SetDataSource(s, f) == EmitDataSource([s EXCEPT !.sourceFn = f])

\* A sort change that sets the sort and then the page, one after the other.
SetSort_TwoSteps(s, newSort) ==
  LET scrollStrategy == s.paginationStrategy = "scroll"
      t == IF scrollStrategy THEN ClearData(ClearRows(s)) ELSE s
      u == PaginationChanged([t EXCEPT !.sort = newSort])
  IN PaginationChanged(
       [u EXCEPT !.page = IF scrollStrategy /\ u.page # 1 THEN 1 ELSE @])

\* setSort$ hold.
SetSort(s, newSort) ==
  LET scrollStrategy == s.paginationStrategy = "scroll"
      t == IF scrollStrategy THEN ClearData(ClearRows(s)) ELSE s
  IN PaginationChanged(
       [t EXCEPT !.sort = newSort,
                 !.page = IF scrollStrategy /\ t.page # 1 THEN 1 ELSE @])

\* A refresh that jumps to page 1 from every other page, also under paginate.
TableRefresh_AlwaysJumps(s) ==
  LET t == ClearData(s)
      u == IF s.paginationStrategy = "scroll" THEN ClearRows(t) ELSE t
  IN IF s.page # 1
       THEN JumpToPageAction(u, 1)
       ELSE IntervalRefresh(u)

\* A refresh that refreshes the page it is on under every strategy.
TableRefresh_NeverJumps(s) ==
  LET t == ClearData(s)
      u == IF s.paginationStrategy = "scroll" THEN ClearRows(t) ELSE t
  IN IntervalRefresh(u)

\* A refresh that leaves the accumulated rows alone.
TableRefresh_KeepsRows(s) ==
  LET u == ClearData(s)
  IN IF s.paginationStrategy # "paginate" /\ s.page # 1
       THEN JumpToPageAction(u, 1)
       ELSE IntervalRefresh(u)

\* refresh$ hold; page and strategy are those at the time of the action.
TableRefresh(s) ==
  LET t == ClearData(s)
      u == IF s.paginationStrategy = "scroll" THEN ClearRows(t) ELSE t
  IN IF s.paginationStrategy # "paginate" /\ s.page # 1
       THEN JumpToPageAction(u, 1)
       ELSE IntervalRefresh(u)

\* A strategy change without the hold that triggers refresh.
SetPaginationStrategy_NoRefresh(s, strategy) ==
  LET t == [s EXCEPT !.page = IF /\ s.paginationStrategy = "scroll"
                                  /\ strategy = "paginate"
                                  /\ s.page # 1
                                 THEN 1 ELSE @,
                     !.paginationStrategy = strategy]
  IN PaginationChanged(t)

\* A strategy change whose refresh does not refresh the DataSource: it
\* clears and jumps to page 1, or clears only.
SetPaginationStrategy_NonForcing(s, strategy) ==
  LET t == ClearData(SetPaginationStrategy_NoRefresh(s, strategy))
      u == IF strategy = "scroll" THEN ClearRows(t) ELSE t
  IN IF strategy # "paginate" /\ u.page # 1
       THEN JumpToPageAction(u, 1)
       ELSE u

\* setPaginationStrategy$: the connect to paginationState, then the hold
\* that triggers refresh.
SetPaginationStrategy(s, strategy) ==
  LET t == [s EXCEPT !.page = IF /\ s.paginationStrategy = "scroll"
                                  /\ strategy = "paginate"
                                  /\ s.page # 1
                                 THEN 1 ELSE @,
                     !.paginationStrategy = strategy]
  IN TableRefresh(PaginationChanged(t))

\* A reset of the table that leaves the rows alone.
TableReset_KeepsRows(s) ==
  IF s.page # 1
    THEN JumpToPageAction(Reset(s), 1)
    ELSE ResetAndRefresh(s)

\* reset$ hold.
TableReset(s) ==
  LET t == IF s.paginationStrategy = "scroll" THEN ClearRows(s) ELSE s IN
  IF s.page # 1
    THEN JumpToPageAction(Reset(t), 1)
    ELSE ResetAndRefresh(t)

(***************************************************************************)
(* Initial states: the state right after construction.                     *)
(***************************************************************************)
\* Interval and DataSource constructors: initDataSourceState; data and
\* dataSource are not set; the synthetic first pulse finds no source.
InitDataSource ==
  LET s == StartWith(ShareSubscribe(
             [refreshInterval |-> refreshInterval,
              dataSource |-> NoSource, pipeline |-> "idle",
              fetch |-> NoFetch, stale |-> {}, loading |-> FALSE,
              subscribers |-> 0, timers |-> 0, elapsed |-> 0, peak |-> 0,
              started |-> 0, pulses |-> 0]))
  IN /\ dataSource = s.dataSource
     /\ subscribers = s.subscribers
     /\ timers = s.timers
     /\ elapsed = s.elapsed
     /\ everPulsed = FALSE
     /\ firstLoading = FALSE
     /\ afterFirstLoading = FALSE
     /\ pipeline = s.pipeline
     /\ fetch = s.fetch
     /\ stale = s.stale
     /\ loading = s.loading
     /\ data = UndefinedV
     /\ error = NoError
     /\ initialState = TRUE

\* TableDataSource constructor with a configuration.
InitTable ==
  /\ hasTable = TRUE
  /\ sourceFn = NoSourceFn
  /\ limit \in Limits
  /\ paginationStrategy \in Strategies
  /\ sort \in {SortUndefined} \cup Sorts
  /\ \E configPage \in PageInputs :
       /\ currentPage = Seed(configPage)
       /\ page = Seed(configPage)
  /\ params = PaginationParams([limit |-> limit, page |-> page,
                                paginationStrategy |-> paginationStrategy,
                                sort |-> sort])
  /\ rows = <<>>
  /\ rowsSet = FALSE
  /\ empty = <<>>

\* A DataSource used on its own: no table is constructed.
NoTable ==
  /\ hasTable = FALSE
  /\ sourceFn = NoSourceFn
  /\ limit = LimitFalse
  /\ paginationStrategy = "none"
  /\ sort = SortUndefined
  /\ currentPage = 1
  /\ page = 1
  /\ params = [pagination |-> <<>>, sort |-> SortUndefined]
  /\ rows = <<>>
  /\ rowsSet = FALSE
  /\ empty = <<>>

Init ==
  /\ refreshInterval \in Intervals \cup {UndefinedInterval}
  /\ InitDataSource
  /\ NoTable

\* The table runs on an interval of 0: pulses come from refresh() only.
TableInit == refreshInterval = 0 /\ InitDataSource /\ InitTable

(***************************************************************************)
(* Actions of the Interval and the DataSource.                             *)
(***************************************************************************)
\* DataSource.source setter.
DoSetSource ==
  \E obs \in Observables : Becomes(SourceChanged(Cur, obs))

\* DataSource.refresh().
DoRefresh == Becomes(IntervalRefresh(Cur))

\* A tenth of a second passes on the running timer without a tick.
DoTime ==
  /\ timers > 0
  /\ elapsed + 1 < refreshInterval
  /\ Becomes([Cur EXCEPT !.elapsed = @ + 1])

\* A tenth of a second passes and the interval timer ticks.
DoTick == TickDue(Cur) /\ Becomes(Tick(Cur))

\* DataSource.refreshInterval setter.
DoSetRefreshInterval ==
  \E i \in Intervals :
    /\ i # refreshInterval
    /\ Becomes(SetRefreshInterval(Cur, i))

DoClearData == Becomes(ClearData(Cur))

DoReset == Becomes(Reset(Cur))

DoResetAndRefresh == Becomes(ResetAndRefresh(Cur))

\* The model stops the scroll accumulation at MaxRows rows.
RowsFit(v) ==
  hasTable /\ paginationStrategy = "scroll" => Len(rows) + Len(v.val) <= MaxRows

\* The source in flight emits a value.
SourceNext ==
  /\ fetch # NoFetch
  /\ \E v \in Values :
       /\ RowsFit(v)
       /\ Becomes(Deliver(Cur, FALSE, "next", v, NoError))

\* The failures a source in flight may throw.  The table stores no error
\* and never reads the one of its DataSource: one failure value stands for
\* all of them there.
SourceErrors == IF hasTable THEN {"e1"} ELSE Errors

\* The source in flight fails.
SourceError ==
  /\ fetch # NoFetch
  /\ \E e \in SourceErrors : Becomes(Deliver(Cur, FALSE, "error", NullV, e))

\* The source in flight completes.
SourceComplete ==
  /\ fetch # NoFetch
  /\ Becomes(Deliver(Cur, FALSE, "complete", NullV, NoError))

\* The producer of a superseded invocation delivers a value.
StaleNext ==
  \E inv \in stale, v \in Values :
    /\ RowsFit(v)
    /\ Becomes(Deliver(Cur, inv.closed, "next", v, NoError))

\* The producer of a superseded invocation fails and ends.
StaleError ==
  \E inv \in stale, e \in Errors :
    Becomes(Deliver([Cur EXCEPT !.stale = @ \ {inv}], inv.closed, "error", NullV, e))

\* The producer of a superseded invocation completes and ends.
StaleComplete ==
  \E inv \in stale :
    Becomes(Deliver([Cur EXCEPT !.stale = @ \ {inv}], inv.closed, "complete",
                    NullV, NoError))

SourceStep ==
  \/ SourceNext
  \/ SourceError
  \/ SourceComplete
  \/ StaleNext
  \/ StaleError
  \/ StaleComplete

Next ==
  \/ DoSetSource
  \/ DoRefresh
  \/ DoTime
  \/ DoTick
  \/ DoSetRefreshInterval
  \/ DoClearData
  \/ DoReset
  \/ DoResetAndRefresh
  \/ SourceStep

Spec == Init /\ [][Next]_vars

(***************************************************************************)
(* Actions of the TableDataSource.                                         *)
(***************************************************************************)
DoSetDataSource ==
  \E f \in SourceFns : Becomes(SetDataSource(Cur, f))

DoSetLimit ==
  \E l \in Limits : l # limit /\ Becomes(SetLimit(Cur, l))

DoSetSort ==
  \E s \in {SortNull} \cup Sorts : Becomes(SetSort(Cur, s))

DoSetPaginationStrategy ==
  \E strategy \in Strategies :
    Becomes(SetPaginationStrategy(Cur, strategy))

\* The model stops the page counter at MaxPage.
DoNextPage == currentPage < MaxPage /\ Becomes(NextPage(Cur))

DoPreviousPage == Becomes(PreviousPage(Cur))

DoScroll == currentPage < MaxPage /\ Becomes(Scroll(Cur))

DoJumpToPage ==
  \E n \in PageInputs : Becomes(JumpToPage(Cur, n))

DoTableRefresh == Becomes(TableRefresh(Cur))

DoTableReset == Becomes(TableReset(Cur))

TableNext ==
  \/ DoSetDataSource
  \/ DoSetLimit
  \/ DoSetSort
  \/ DoSetPaginationStrategy
  \/ DoNextPage
  \/ DoPreviousPage
  \/ DoScroll
  \/ DoJumpToPage
  \/ DoTableRefresh
  \/ DoTableReset
  \/ DoRefresh
  \/ SourceStep

TableSpec == TableInit /\ [][TableNext]_vars

(***************************************************************************)
(* Properties.                                                             *)
(***************************************************************************)
\* What a producer can deliver: a value, a failure or its completion.
Notifications ==
  [kind : {"next"}, v : Values, e : {NoError}]
    \cup [kind : {"error"}, v : {NullV}, e : Errors]
    \cup [kind : {"complete"}, v : {NullV}, e : {NoError}]

\* C1: whatever a superseded source invocation delivers later (a value, an
\* error or its completion) changes neither data nor error nor
\* initialState (nor loading, nor the open invocation).
C1_StaleResultsDiscarded ==
  \A inv \in stale : \A n \in Notifications :
    LET r == Deliver(Cur, inv.closed, n.kind, n.v, n.e) IN
    /\ r.data = data
    /\ r.error = error
    /\ r.initialState = initialState
    /\ r.loading = loading
    /\ r.fetch = fetch
    /\ r.emitted = <<>>

\* Source A was superseded by source B, which is now in flight, after a
\* value had been received.
C1_Witness ==
  /\ fetch # NoFetch
  /\ data.kind = "value"
  /\ \E inv \in stale : inv.src # fetch.src

\* C2: loading is true exactly while a source invocation is in flight
\* (subscribed, and neither completed nor failed nor interrupted).
C2_LoadingIffInFlight == loading <=> fetch # NoFetch

\* A pulse (or replacement) interrupted an invocation of the source that is
\* in flight again: loading is true for the new invocation.
C2_Witness ==
  /\ loading
  /\ fetch # NoFetch
  /\ [src |-> fetch.src, closed |-> TRUE] \in stale

\* The values data$ emits in a handler, after the value `prev` it emitted
\* last, never repeat the value before them.
RECURSIVE NoRepeat(_, _)
NoRepeat(prev, seq) ==
  \/ seq = <<>>
  \/ /\ ~SameValue(prev, Head(seq))
     /\ NoRepeat(Head(seq), Tail(seq))

\* The handlers that write data: a value of the source in flight,
\* clearData(), reset() and resetAndRefresh().
DataWriters ==
  {ClearData(Cur), Reset(Cur), ResetAndRefresh(Cur)}
    \cup {OnValue(Cur, v) : v \in Values}

C4_FailureAbsorbed ==
  /\ pipeline = "subscribed"
  /\ \A e \in Errors :
       fetch # NoFetch =>
         LET r == OnError(Cur, e) IN
         /\ r.error = e
         /\ r.pipeline = "subscribed"
         /\ r.fetch = NoFetch
         /\ r.data = data
         /\ Execute(r).fetch = [src |-> dataSource.src, query |-> dataSource.query]
         /\ Execute(r).started = 1
  /\ (error # NoError /\ dataSource # NoSource) =>
       /\ Execute(Cur).started = 1
       /\ Execute(Cur).loading
       /\ \A v \in Values : OnValue(Execute(Cur), v).error = NoError

\* After a failure a new invocation of the source is in flight.
C4_Witness ==
  /\ error \in Errors
  /\ fetch # NoFetch
  /\ initialState = FALSE

\* C5: the page is never below 1, whatever page is configured and whatever
\* is called with whatever argument.
C5_PageFloor == page >= 1 /\ currentPage >= 1

\* On page 1 under paginate: previousPage() and jumpToPage(-1) both end on
\* page 1.
C5_Witness ==
  /\ paginationStrategy = "paginate"
  /\ page = 1
  /\ PreviousPage(Cur).page = 1
  /\ JumpToPage(Cur, -1).page = 1
  /\ dataSource # NoSource

\* rows as an array: undefined rows hold nothing.
RowsArray == IF rowsSet THEN rows ELSE <<>>

\* The steps that signal clearRows.
ClearsRows ==
  \/ DoSetSort
  \/ DoSetPaginationStrategy
  \/ DoTableRefresh
  \/ DoTableReset

\* C6: under scroll, in every step without a clearRows signal, a non-null
\* batch that data$ delivers is appended to the end of rows, and rows is
\* unchanged otherwise (a null batch, or no batch).
C6_ScrollAppends ==
  [][\/ paginationStrategy # "scroll"
     \/ paginationStrategy' # "scroll"
     \/ IF data' # data /\ data'.kind = "value"
          THEN rowsSet' /\ rows' = RowsArray \o data'.val
          ELSE rowsSet' = rowsSet /\ rows' = rows
     \/ ClearsRows]_vars

\* Three batches were appended one after the other.
C6_Witness ==
  /\ paginationStrategy = "scroll"
  /\ rowsSet
  /\ Len(rows) = 3
  /\ data.kind = "value"
  /\ rows[3] = data.val[1]
  /\ rows[1] # rows[2]

\* C7: under paginate or none, rows equals the batch data$ delivered last,
\* and is empty if that batch is null.
C7_RowsAreLastBatch ==
  (paginationStrategy \in {"paginate", "none"} /\ data # UndefinedV)
    => /\ rowsSet
       /\ rows = IF data.kind = "value" THEN data.val ELSE <<>>

\* C8: replacing the source supersedes the invocation in flight and
\* subscribes the new source in the same step, without any execute$ pulse.
C8_ReplacementFetchesAtOnce ==
  \A obs \in Observables :
    obs # dataSource =>
      LET r == SourceChanged(Cur, obs) IN
      /\ r.dataSource = obs
      /\ r.fetch = [src |-> obs.src, query |-> obs.query]
      /\ r.loading
      /\ r.started = 1
      /\ fetch # NoFetch => [src |-> fetch.src, closed |-> TRUE] \in r.stale

\* Source A delivered a value, then B replaced it and is in flight, with no
\* invocation of B superseded so far.
C8_Witness ==
  /\ dataSource.src = "B"
  /\ fetch.src = "B"
  /\ data.kind = "value"
  /\ stale = {[src |-> "A", closed |-> TRUE]}

\* C9 as claimed: replacing the source invokes nothing; the new source is
\* invoked only by the next execute$ pulse.
C9_ReplacementInvokesNothing ==
  \A obs \in Observables :
    obs # dataSource => SourceChanged(Cur, obs).started = 0

\* C9 as amended: replacing the source emits no execute$ pulse, yet the new
\* source is invoked at the moment of the replacement; the next pulse
\* invokes the new source once more.
C9_ReplacementWithoutPulse ==
  \A obs \in Observables :
    obs # dataSource =>
      LET r == SourceChanged(Cur, obs) IN
      /\ r.pulses = 0
      /\ r.started = 1
      /\ Execute(r).fetch.src = obs.src
      /\ Execute(r).pulses = 1

\* Source B replaced source A before A delivered anything: B is in flight
\* although nothing but the replacement happened since.
C9_Witness ==
  /\ dataSource.src = "B"
  /\ fetch.src = "B"
  /\ loading
  /\ data = UndefinedV
  /\ stale = {[src |-> "A", closed |-> TRUE]}

\* C10: the synthetic pulse at construction has subscribed the pipeline, so
\* configuring the first source starts a fetch without refresh() or a
\* tick; afterwards every execute$ pulse subscribes the currently
\* configured source exactly once.
C10_InitialFetchAndReexecution ==
  /\ dataSource = NoSource =>
       \A obs \in Observables :
         LET r == SourceChanged(Cur, obs) IN
         r.started = 1 /\ r.pulses = 0 /\ r.fetch.src = obs.src
  /\ dataSource # NoSource =>
       LET r == Execute(Cur) IN
       /\ r.started = 1
       /\ r.pulses = 1
       /\ r.fetch = [src |-> dataSource.src, query |-> dataSource.query]
       /\ r.loading

\* The source was replaced while idle and a pulse re-invoked it: the
\* invocation in flight is one of the current source.
C10_Witness ==
  /\ dataSource.src = "B"
  /\ fetch.src = "B"
  /\ stale = {[src |-> "A", closed |-> TRUE], [src |-> "B", closed |-> TRUE]}

\* C11: at every instant firstLoading is loading and initialState, and
\* afterFirstLoading is loading and not initialState.
C11_DerivedAtEveryInstant ==
  /\ firstLoading = (loading /\ initialState)
  /\ afterFirstLoading = (loading /\ ~initialState)

\* What each operation of the DataSource, a tick that is due, and each
\* notification of the source in flight, makes of the current state.
Handled ==
  {SourceChanged(Cur, obs) : obs \in Observables}
    \cup {IntervalRefresh(Cur), ClearData(Cur), Reset(Cur), ResetAndRefresh(Cur)}
    \cup (IF TickDue(Cur) THEN {Tick(Cur)} ELSE {})
    \cup (IF fetch # NoFetch
            THEN {Deliver(Cur, FALSE, n.kind, n.v, n.e) : n \in Notifications}
            ELSE {})

\* C11 as amended: firstLoading and afterFirstLoading are derived only when
\* loading$ emits, from the new loading value and the initialState of that
\* moment; an operation in which loading$ does not emit leaves both as they
\* were, also when it changes initialState; both are false whenever
\* loading is false.
C11_SampledAtLoading ==
  /\ ~loading => ~firstLoading /\ ~afterFirstLoading
  /\ \A r \in Handled :
       IF r.loadingEmits > 0
         THEN /\ r.firstLoading = (r.loading /\ r.initialState)
              /\ r.afterFirstLoading = (r.loading /\ ~r.initialState)
         ELSE /\ r.firstLoading = firstLoading
              /\ r.afterFirstLoading = afterFirstLoading

\* The first value arrived and the source is still active: firstLoading
\* has not been derived again.
C11_Witness ==
  /\ loading
  /\ ~initialState
  /\ data.kind = "value"
  /\ firstLoading
  /\ ~afterFirstLoading

\* What each operation of the DataSource other than refresh() and the
\* refreshInterval setter makes of the current state.
HandledWithoutInterval ==
  {SourceChanged(Cur, obs) : obs \in Observables}
    \cup {ClearData(Cur), Reset(Cur)}
    \cup (IF fetch # NoFetch
            THEN {Deliver(Cur, FALSE, n.kind, n.v, n.e) : n \in Notifications}
            ELSE {})

\* C12: while a timer runs, refresh() emits exactly one pulse and a change
\* of the interval emits none; both cancel the running timer and start one
\* from zero, so that the next tick comes one full (new) period later: a
\* tick is due only when a whole period has elapsed on the running timer,
\* and nothing else moves the timer.
C12_PhaseReset ==
  timers = 1 =>
    /\ elapsed < refreshInterval
    /\ TickDue(Cur) <=> elapsed = refreshInterval - 1
    /\ LET r == IntervalRefresh(Cur) IN
       /\ r.pulses = 1
       /\ r.refreshes = 1
       /\ r.timers = 1
       /\ r.peak = 1
       /\ r.elapsed = 0
       /\ r.refreshInterval = refreshInterval
       /\ ~TickDue(r)
    /\ \A i \in Intervals :
         (i # refreshInterval /\ i > 1) =>
           LET r == SetRefreshInterval(Cur, i) IN
           /\ r.pulses = 0
           /\ r.timers = 1
           /\ r.peak = 1
           /\ r.elapsed = 0
           /\ r.refreshInterval = i
           /\ ~TickDue(r)
    /\ \A r \in HandledWithoutInterval :
         /\ r.elapsed = elapsed
         /\ r.timers = timers
         /\ r.pulses = 0

\* Halfway through a period of 0.4 s, after a tick or refresh() started a
\* fetch.
C12_Witness ==
  /\ timers = 1
  /\ refreshInterval = 4
  /\ elapsed = 2
  /\ everPulsed
  /\ fetch # NoFetch

\* C13 as claimed: a periodic interval has emitted execute$ from the time
\* it is subscribed (t = 0) on.
C13_PulseAtSubscription == timers = 1 => everPulsed

\* C13 as amended: a periodic interval emits nothing when it is
\* subscribed; its first tick comes one whole period later, and then one
\* tick after every period.
C13_FirstTickAfterPeriod ==
  timers = 1 =>
    /\ elapsed = 0 => ~TickDue(Cur)
    /\ TickDue(Cur) <=> elapsed + 1 = refreshInterval
    /\ TickDue(Cur) =>
         LET r == Tick(Cur) IN
         /\ r.pulses = 1
         /\ r.everPulsed
         /\ r.elapsed = 0
         /\ r.timers = 1
         /\ ~TickDue(r)

\* Nothing was called since construction and a whole period but the last
\* tenth has gone by without a pulse.
C13_Witness ==
  /\ timers = 1
  /\ ~everPulsed
  /\ dataSource = NoSource
  /\ refreshInterval = 4
  /\ elapsed = 3

C15_OneTimer ==
  /\ timers = IF TimerRuns(Cur) THEN 1 ELSE 0
  /\ subscribers = 1 + IF fetch # NoFetch THEN 1 ELSE 0
  /\ \A r \in Handled \cup {SetRefreshInterval(Cur, i) : i \in Intervals} :
       /\ r.peak <= 1
       /\ r.timers <= 1
       /\ r.subscribers = 1 + IF r.fetch # NoFetch THEN 1 ELSE 0

\* A fetch is in flight while the timer runs: execute$ has two subscribers
\* and one timer.
C15_Witness ==
  /\ subscribers = 2
  /\ timers = 1
  /\ elapsed > 0
  /\ fetch # NoFetch

\* What each operation of the TableDataSource makes of the current state.
TableHandled ==
  {SetLimit(Cur, l) : l \in Limits}
    \cup {SetSort(Cur, x) : x \in {SortNull} \cup Sorts}
    \cup {SetPaginationStrategy(Cur, st) : st \in Strategies}
    \cup {JumpToPage(Cur, n) : n \in PageInputs}
    \cup {SetDataSource(Cur, f) : f \in SourceFns}
    \cup {NextPage(Cur), PreviousPage(Cur), Scroll(Cur), TableRefresh(Cur),
          TableReset(Cur)}

\* C16: nextPage(), previousPage() and jumpToPage(n) change nothing unless
\* the strategy is paginate, and scroll() changes nothing unless the
\* strategy is scroll.
C16_StrategyGating ==
  /\ paginationStrategy # "paginate" =>
       /\ NextPage(Cur) = Cur
       /\ PreviousPage(Cur) = Cur
       /\ \A n \in PageInputs : JumpToPage(Cur, n) = Cur
  /\ paginationStrategy # "scroll" => Scroll(Cur) = Cur

\* Under scroll on page 2, with a fetch in flight: the page calls of
\* paginate are the mismatched ones.
C16_Witness ==
  /\ paginationStrategy = "scroll"
  /\ page = 2
  /\ currentPage = 2
  /\ fetch # NoFetch
  /\ rowsSet

\* C17: an effective nextPage() or scroll() sets page to the page shown
\* last plus 1, and an effective previousPage() to that page minus 1
\* unless it is 1, also after jumpToPage(n) and after page was set back to
\* 1 internally.
C17_CountsFromShownPage ==
  /\ paginationStrategy = "paginate" =>
       /\ NextPage(Cur).page = page + 1
       /\ PreviousPage(Cur).page = IF page = 1 THEN 1 ELSE page - 1
  /\ paginationStrategy = "scroll" => Scroll(Cur).page = page + 1

\* The values paginationParams$ emits in an operation, after the value
\* `prev` it emitted last: each differs from the one before it in skip,
\* take, sort column or sort direction.
RECURSIVE ParamsChange(_, _)
ParamsChange(prev, seq) ==
  \/ seq = <<>>
  \/ /\ \/ Head(seq).pagination # prev.pagination
        \/ SortKey(Head(seq).sort) # SortKey(prev.sort)
     /\ ParamsChange(Head(seq), Tail(seq))

\* The same with a difference in skip or take each time.
RECURSIVE PaginationChange(_, _)
PaginationChange(prev, seq) ==
  \/ seq = <<>>
  \/ /\ Head(seq).pagination # prev.pagination
     /\ PaginationChange(Head(seq), Tail(seq))

\* The pagination parameters of every limit, page and strategy: skip and
\* take of a numeric limit, those of the fallback limit for a limit that is
\* no number under paginate or scroll, none for limit = false under none.
DerivationRule ==
  \A l \in Limits, pg \in 1 .. MaxPage, st \in Strategies :
    LET q == PaginationParams([limit |-> l, page |-> pg,
                               paginationStrategy |-> st,
                               sort |-> sort]).pagination
    IN /\ isNumber(l) => q = <<(pg - 1) * l.n, l.n>>
       /\ (~isNumber(l) /\ st \in {"paginate", "scroll"}) =>
            q = <<(pg - 1) * fallbackLimit, fallbackLimit>>
       /\ (l = LimitFalse /\ st = "none") => q = <<>>

\* C18 as claimed: the parameters follow the derivation rule and
\* paginationParams$ emits only when skip or take changed.
C18_EmitsOnSkipTakeOnly ==
  /\ DerivationRule
  /\ \A r \in TableHandled : PaginationChange(params, r.derived)

\* C18 as amended: the parameters follow the derivation rule; the value
\* paginationParams$ emitted last is that of the current limit, page,
\* strategy and sort; and it emits only when skip, take, the sort column
\* or the sort direction changed.
C18_ParamsDerivation ==
  /\ DerivationRule
  /\ params.pagination = PaginationParams(Cur).pagination
  /\ SortKey(params.sort) = SortKey(sort)
  /\ \A r \in TableHandled :
       /\ ParamsChange(params, r.derived)
       /\ r.params.pagination = PaginationParams(r).pagination
       /\ SortKey(r.params.sort) = SortKey(r.sort)

\* Page 2 of a numeric limit of 2 with a sort set: skip 2, take 2.
C18_Witness ==
  /\ limit = NumberLimit(2)
  /\ page = 2
  /\ params.pagination = <<2, 2>>
  /\ sort \in Sorts
  /\ dataSource # NoSource

C20_TableRefresh ==
  LET r == TableRefresh(Cur) IN
  IF paginationStrategy # "paginate" /\ page # 1
    THEN /\ r.data = NullV
         /\ r.page = 1
         /\ r.refreshes = 0
         /\ r.pulses = 0
    ELSE /\ r.page = page
         /\ r.currentPage = currentPage
         /\ r.refreshes = 1
         /\ r.pulses = 1
         /\ dataSource # NoSource => r.started = 1

\* Page 3 under paginate with data shown.
C20_Witness ==
  /\ paginationStrategy = "paginate"
  /\ page = 3
  /\ data.kind = "value"
  /\ rowsSet

\* C21: with a source set, refresh() and reset() of the table each invoke
\* the source function anew, whatever the limit and the strategy.
C21_RefreshRefetches ==
  sourceFn # NoSourceFn =>
    /\ TableRefresh(Cur).started >= 1
    /\ TableReset(Cur).started >= 1

\* C22: reset() of the table resets the DataSource and sets page to 1 if
\* page is not 1, and resets and refreshes the DataSource with page left
\* at 1 otherwise; under scroll the accumulated rows are emptied in both
\* cases.
C22_TableReset ==
  LET r == TableReset(Cur) IN
  /\ r.data = NullV
  /\ r.initialState
  /\ r.page = 1
  /\ IF page # 1
       THEN r.refreshes = 0 /\ r.pulses = 0
       ELSE r.refreshes = 1 /\ r.pulses = 1
  /\ paginationStrategy = "scroll" => r.rows = <<>> /\ r.rowsSet = rowsSet

\* Under scroll on page 2 with two batches accumulated.
C22_Witness ==
  /\ paginationStrategy = "scroll"
  /\ page = 2
  /\ rowsSet
  /\ Len(rows) = 2
  /\ ~initialState

\* The outcomes of reset(): that of the DataSource, with and without the
\* refresh, and that of the table.
Resets == {Reset(Cur), ResetAndRefresh(Cur), TableReset(Cur)}

\* C23 as claimed: right after a reset data is null, initialState is true
\* and error is null.
C23_ResetClearsError ==
  \A r \in Resets :
    r.data = NullV /\ r.initialState /\ r.error = NoError

\* C23 as amended: right after a reset data is null and initialState is
\* true, while error is what it was: an error of a failed fetch outlasts
\* the reset.
C23_ResetKeepsError ==
  \A r \in Resets :
    r.data = NullV /\ r.initialState /\ r.error = error

\* A fetch failed after data had been received.
C23_Witness ==
  /\ error \in Errors
  /\ data.kind = "value"
  /\ ~initialState
  /\ fetch = NoFetch

\* C24: under scroll with a source set, refresh() empties the accumulated
\* rows and starts a fetch, and once that fetch delivers a batch rows is
\* exactly that batch, also when the batch is the data held before the
\* refresh.
C24_RefreshClearsAccumulator ==
  paginationStrategy = "scroll" /\ sourceFn # NoSourceFn =>
    LET r == TableRefresh(Cur) IN
    /\ r.rows = <<>>
    /\ r.fetch # NoFetch
    /\ \A v \in Values :
         LET d == OnValue(r, v) IN d.rowsSet /\ d.rows = v.val

\* Two batches accumulated under scroll, the last one still held as data.
C24_Witness ==
  /\ paginationStrategy = "scroll"
  /\ sourceFn # NoSourceFn
  /\ rowsSet
  /\ Len(rows) = 2
  /\ data.kind = "value"

C26_StrategyTransitions ==
  /\ paginationStrategy = "none" /\ limit = LimitFalse =>
       LET r == SetPaginationStrategy(Cur, "scroll") IN
       /\ r.paginationStrategy = "scroll"
       /\ r.data = NullV
       /\ r.rows = <<>>
  /\ paginationStrategy = "scroll" /\ page # 1 =>
       LET r == SetPaginationStrategy(Cur, "paginate") IN
       /\ r.paginationStrategy = "paginate"
       /\ r.data = NullV
       /\ r.page = 1

\* Under none without a limit, the last value shown as rows.
C26_Witness ==
  /\ paginationStrategy = "none"
  /\ limit = LimitFalse
  /\ data.kind = "value"
  /\ rowsSet
  /\ rows = data.val

\* C27 as claimed: a change of strategy on page 1 does not invoke the
\* refresh of the DataSource.
C27_NonForcingRefresh ==
  page = 1 =>
    \A st \in Strategies : SetPaginationStrategy(Cur, st).refreshes = 0

\* C27 as amended: every change of strategy triggers the refresh of the
\* table: it clears the data and, unless it jumps to page 1 (new strategy
\* not paginate, page not 1), it invokes the refresh of the DataSource
\* once, which with a source set starts a fetch whether the pagination
\* parameters changed or not.
C27_StrategyChangeRefreshes ==
  \A st \in Strategies :
    LET r == SetPaginationStrategy(Cur, st) IN
    /\ r.data = NullV
    /\ IF st # "paginate" /\ page # 1
         THEN r.refreshes = 0 /\ r.page = 1
         ELSE /\ r.refreshes = 1
              /\ r.pulses = 1
              /\ sourceFn # NoSourceFn => r.started >= 1 /\ r.fetch # NoFetch

\* On page 1 with a source set and its value received: a change of
\* strategy that changes no pagination parameter is possible.
C27_Witness ==
  /\ page = 1
  /\ sourceFn # NoSourceFn
  /\ fetch = NoFetch
  /\ data.kind = "value"
  /\ \E st \in Strategies :
       /\ st # paginationStrategy
       /\ SameParams(params, SetPaginationStrategy(Cur, st).params)

C29_ClearAndResetFrame ==
  LET c == ClearData(Cur)
      r == Reset(Cur)
  IN /\ c.data = NullV
     /\ c.initialState = initialState
     /\ c.error = error
     /\ r.data = NullV
     /\ r.initialState
     /\ \A x \in {c, r} :
          /\ x.loading = loading
          /\ x.dataSource = dataSource
          /\ x.fetch = fetch
          /\ x.stale = stale
          /\ x.timers = timers
          /\ x.elapsed = elapsed
          /\ x.pulses = 0
          /\ x.refreshes = 0
          /\ x.started = 0
          /\ x.loadingEmits = 0

\* A fetch in flight while data and the error of an earlier fetch are held.
C29_Witness ==
  /\ loading
  /\ fetch # NoFetch
  /\ data.kind = "value"
  /\ error \in Errors
  /\ ~initialState

\* C30: resetAndRefresh() issues exactly one execute pulse, through one
\* refresh of the interval, and ends with data null and initialState true;
\* with a source set the fetch it starts sets loading after the reset, so
\* firstLoading is true and afterFirstLoading is false.
C30_ResetThenRefresh ==
  LET r == ResetAndRefresh(Cur) IN
  /\ r.pulses = 1
  /\ r.refreshes = 1
  /\ r.data = NullV
  /\ r.initialState
  /\ dataSource # NoSource =>
       /\ r.started = 1
       /\ r.fetch # NoFetch
       /\ r.loading
       /\ r.firstLoading
       /\ ~r.afterFirstLoading

\* A value was received and a later fetch is in flight, seen as a load
\* after the first.
C30_Witness ==
  /\ dataSource # NoSource
  /\ ~initialState
  /\ data.kind = "value"
  /\ loading
  /\ afterFirstLoading

\* C31 as claimed: a refresh of the table whose fetch fails leaves the data
\* shown before in place.
C31_RefreshFailureKeepsData ==
  data.kind = "value" =>
    LET r == TableRefresh(Cur) IN
    r.fetch # NoFetch => \A e \in Errors : OnError(r, e).data = data

\* C31 as amended: a failing fetch leaves data as it is and emits nothing
\* on data$, and so does the refresh of the DataSource, whose failing fetch
\* leaves the data shown before in place; the refresh of the table clears
\* the data itself, so after its fetch fails data is null.
C31_FailureKeepsData ==
  /\ fetch # NoFetch =>
       \A e \in Errors :
         LET r == OnError(Cur, e) IN
         r.data = data /\ r.emitted = <<>> /\ r.error = e
  /\ LET r == IntervalRefresh(Cur) IN
     /\ r.data = data
     /\ r.fetch # NoFetch => \A e \in Errors : OnError(r, e).data = data
  /\ LET r == TableRefresh(Cur) IN
     /\ r.data = NullV
     /\ r.fetch # NoFetch => \A e \in Errors : OnError(r, e).data = NullV

\* A value is shown and a later fetch is in flight.
C31_Witness ==
  /\ hasTable
  /\ data.kind = "value"
  /\ fetch # NoFetch
  /\ error = NoError
  /\ ~initialState

\* C32: initialState is true at creation and after reset() and is made
\* false by the first successful value and by nothing else.
C32_OnlyValueEndsInitialState ==
  /\ \A r \in {Reset(Cur), ResetAndRefresh(Cur)} : r.initialState
  /\ \A r \in Handled :
       initialState /\ ~r.initialState =>
         fetch # NoFetch /\ \E v \in Values : r = OnValue(Cur, v)

\* The query of a source invocation agrees with the pagination state st:
\* skip and take exactly when pagination parameters are defined, sortBy and
\* sortDirection exactly when the sort is a Sort.
QueryOf(q, st) ==
  LET pp == PaginationParams(st) IN
  /\ (q.skip # <<>>) = (pp.pagination # <<>>)
  /\ (q.take # <<>>) = (pp.pagination # <<>>)
  /\ pp.pagination # <<>> =>
       q.skip = <<pp.pagination[1]>> /\ q.take = <<pp.pagination[2]>>
  /\ (q.sortBy # <<>>) = (st.sort \in Sorts)
  /\ (q.sortDirection # <<>>) = (st.sort \in Sorts)
  /\ st.sort \in Sorts =>
       q.sortBy = <<st.sort[1]>> /\ q.sortDirection = <<st.sort[2]>>

\* C33: once a source function is set, the observable in use (and the
\* fetch in flight) was obtained with skip/take present exactly when
\* pagination parameters are defined and sortBy/sortDirection exactly when
\* sort is a Sort, carrying the current values; an operation that changes
\* page, limit or sort so that these parameters change invokes the function
\* anew with the new ones.
C33_QueryParameters ==
  sourceFn # NoSourceFn =>
    /\ QueryOf(dataSource.query, Cur)
    /\ fetch # NoFetch => fetch.query = dataSource.query
    /\ \A r \in TableHandled :
         r.dataSource.query # dataSource.query =>
           /\ r.started >= 1
           /\ r.fetch.query = r.dataSource.query
           /\ QueryOf(r.fetch.query, r)

\* On page 2 with a numeric limit and a sort, the fetch for it in flight.
C33_Witness ==
  /\ sourceFn # NoSourceFn
  /\ page = 2
  /\ isNumber(limit)
  /\ sort \in Sorts
  /\ fetch # NoFetch
  /\ fetch.query.skip = <<limit.n>>

\* C34: empty$ holds true exactly when rows is an array of length 0, and
\* it has a value whenever rows has one.
C34_EmptyIffNoRows ==
  /\ (empty = <<TRUE>>) = (rowsSet /\ Len(rows) = 0)
  /\ (empty = <<FALSE>>) = (rowsSet /\ Len(rows) > 0)

\* Rows were accumulated under scroll and then cleared.
C34_Witness ==
  /\ paginationStrategy = "scroll"
  /\ rowsSet
  /\ rows = <<>>
  /\ data = NullV
  /\ ~initialState

C36_SetSortRefetches ==
  paginationStrategy = "scroll" /\ sourceFn # NoSourceFn =>
    \A x \in {SortNull} \cup Sorts :
      LET r == SetSort(Cur, x) IN r.started >= 1 /\ r.fetch # NoFetch

\* The operations of the table that clear data before they re-fetch.
Refreshes(s) ==
  {TableRefresh(s), TableReset(s)}
    \cup {SetPaginationStrategy(s, st) : st \in {"paginate", "none"}}

\* C37: under paginate or none, once the fetch in flight has delivered a
\* batch and completed, rows is that batch; and if then refresh(), reset()
\* or a change of strategy within paginate and none leaves no fetch in
\* flight, so that this fetch is still the last one, rows is not left
\* empty.
C37_RowsAtQuiescence ==
  /\ hasTable
  /\ paginationStrategy \in {"paginate", "none"}
  /\ fetch # NoFetch
  => \A v \in Values :
       LET q == OnComplete(OnValue(Cur, v)) IN
       /\ q.fetch = NoFetch
       /\ q.rowsSet /\ q.rows = v.val
       /\ \A r \in Refreshes(q) :
            r.fetch = NoFetch => r.rowsSet /\ Len(r.rows) > 0

\* C38: under scroll with a source set, after refresh() has cleared rows
\* and its fetch has delivered the batch of page 1 and completed, a refresh
\* of the DataSource whose fetch delivers a batch and completes leaves one
\* batch in rows for the one page: no page is held twice.
C38_ScrollContiguity ==
  paginationStrategy = "scroll" /\ sourceFn # NoSourceFn =>
    \A v1, v2 \in Values :
      LET c == TableRefresh(Cur)
          q == OnComplete(OnValue(c, v1))
          r == OnComplete(OnValue(IntervalRefresh(q), v2))
      IN /\ c.rows = <<>> /\ c.page = 1 /\ c.fetch # NoFetch
         /\ q.rows = v1.val /\ q.fetch = NoFetch /\ q.error = NoError
         /\ r.fetch = NoFetch /\ r.error = NoError /\ r.page = 1
         /\ Len(r.rows) = Len(v2.val)

\* C39: reset() and clearData() leave the fetch in flight open and loading
\* true, and a value that fetch delivers afterwards is committed: data is
\* the value, error is null and initialState is false, also after a reset.
C39_FetchOutlivesReset ==
  fetch # NoFetch =>
    \A x \in {Reset(Cur), ClearData(Cur)} :
      /\ x.fetch = fetch
      /\ x.loading
      /\ x.pipeline = pipeline
      /\ \A v \in Values :
           LET d == Deliver(x, FALSE, "next", v, NoError) IN
           /\ d.data = v
           /\ d.emitted = Append(x.emitted, v)
           /\ d.error = NoError
           /\ ~d.initialState
           /\ d.loading

\* A fetch in flight while a value and an error are held.
C39_Witness ==
  /\ fetch # NoFetch
  /\ loading
  /\ data.kind = "value"
  /\ error \in Errors
  /\ ~initialState
  /\ afterFirstLoading

====
